---- MODULE Spec2Model ----
(***************************************************************************)
(* Model of G11Parser (parser/g11_file_parser.py): the BVR DD type 2       *)
(* Postfinance statement parser.  A text is a sequence of one-character    *)
(* strings, a line is a text, and every field is cut out of a line at the  *)
(* offsets the code uses, with Python's slicing rules.  Amounts are kept   *)
(* in cents (the code's float divided by 100 is cents / 100).              *)
(***************************************************************************)
EXTENDS Integers, Sequences, FiniteSets, TLC

\* ------------------------------------------------------------------ bounds
MaxLines == 3
MaxParses == 2

\* --------------------------------------------------------- Python helpers
MinOf(a, b) == IF a < b THEN a ELSE b

\* s[a:b] : a slice never fails, it is cut at the end of the text
Slice(s, a, b) == SubSeq(s, a + 1, MinOf(b, Len(s)))

DigitChars == <<"0", "1", "2", "3", "4", "5", "6", "7", "8", "9">>
IsDigit(c) == \E k \in 1..10 : DigitChars[k] = c
DigitVal(c) == (CHOOSE k \in 1..10 : DigitChars[k] = c) - 1
AllDigits(s) == \A k \in 1..Len(s) : IsDigit(s[k])

RECURSIVE ToNat(_)
ToNat(s) == IF s = <<>> THEN 0
            ELSE 10 * ToNat(SubSeq(s, 1, Len(s) - 1)) + DigitVal(s[Len(s)])

\* str.strip() over the blank
Strip(s) ==
    LET idx == {k \in 1..Len(s) : s[k] # " "}
    IN  IF idx = {} THEN <<>>
        ELSE SubSeq(s, CHOOSE k \in idx : \A j \in idx : k <= j,
                       CHOOSE k \in idx : \A j \in idx : j <= k)

\* float(text) and int(text) over the texts of the files below (digits,
\* blanks and letters; no sign, point, exponent, 'inf' or 'nan'):
\* surrounding blanks are dropped, then the text must be a non-empty run of
\* digits, anything else is a ValueError.
ParseNumber(s) ==
    LET t == Strip(s)
    IN  IF t # <<>> /\ AllDigits(t) THEN [ok |-> TRUE, v |-> ToNat(t)]
        ELSE [ok |-> FALSE, v |-> 0]

RECURSIVE Digits(_, _)
Digits(n, w) == IF w = 0 THEN <<>>
                ELSE Digits(n \div 10, w - 1) \o <<DigitChars[(n % 10) + 1]>>

\* data_file.splitlines(): the text is cut at every line break, and a line
\* break at the very end opens no further line.
RECURSIVE SplitFrom(_, _)
SplitFrom(s, start) ==
    IF start > Len(s) THEN <<>>
    ELSE LET breaks == {k \in start..Len(s) : s[k] = "\n"}
         IN  IF breaks = {} THEN <<SubSeq(s, start, Len(s))>>
             ELSE LET e == CHOOSE k \in breaks : \A j \in breaks : k <= j
                  IN  <<SubSeq(s, start, e - 1)>> \o SplitFrom(s, e + 1)

splitlines(s) == SplitFrom(s, 1)

\* time.strptime(text, '%Y%m%d'): %Y is four digits, %m is 1[0-2] | 0[1-9] |
\* [1-9], %d is 3[01] | [12]\d | 0[1-9] | [1-9] | blank [1-9]; the first
\* alternatives that match are taken, the whole text must be consumed and
\* the day must exist in the month.
OneToNine(c) == IsDigit(c) /\ c # "0"
At(s, p) == IF p >= 1 /\ p <= Len(s) THEN s[p] ELSE "eot"

MonthLen(k) == IF k = 3 THEN 1 ELSE 2
MonthMatch(s, p, k) ==
    CASE k = 1 -> At(s, p) = "1" /\ At(s, p + 1) \in {"0", "1", "2"}
      [] k = 2 -> At(s, p) = "0" /\ OneToNine(At(s, p + 1))
      [] k = 3 -> OneToNine(At(s, p))

DayLen(k) == IF k = 4 THEN 1 ELSE 2
DayMatch(s, p, k) ==
    CASE k = 1 -> At(s, p) = "3" /\ At(s, p + 1) \in {"0", "1"}
      [] k = 2 -> At(s, p) \in {"1", "2"} /\ IsDigit(At(s, p + 1))
      [] k = 3 -> At(s, p) = "0" /\ OneToNine(At(s, p + 1))
      [] k = 4 -> OneToNine(At(s, p))
      [] k = 5 -> At(s, p) = " " /\ OneToNine(At(s, p + 1))

IsLeap(y) == (y % 4 = 0 /\ y % 100 # 0) \/ y % 400 = 0
DaysInMonth(y, m) ==
    IF m = 2 THEN (IF IsLeap(y) THEN 29 ELSE 28)
    ELSE IF m \in {4, 6, 9, 11} THEN 30 ELSE 31

strptime(s) ==
    LET bad   == [ok |-> FALSE, y |-> 0, m |-> 0, d |-> 0]
        pairs == {q \in (1..3) \X (1..5) :
                     /\ MonthMatch(s, 5, q[1])
                     /\ DayMatch(s, 5 + MonthLen(q[1]), q[2])}
    IN  IF ~(Len(s) >= 4 /\ AllDigits(SubSeq(s, 1, 4))) \/ pairs = {} THEN bad
        ELSE LET q  == CHOOSE a \in pairs : \A b \in pairs :
                          a[1] < b[1] \/ (a[1] = b[1] /\ a[2] <= b[2])
                 ms == SubSeq(s, 5, 4 + MonthLen(q[1]))
                 ds == Strip(SubSeq(s, 5 + MonthLen(q[1]),
                                    4 + MonthLen(q[1]) + DayLen(q[2])))
                 y  == ToNat(SubSeq(s, 1, 4))
                 m  == ToNat(ms)
                 d  == ToNat(ds)
             IN  IF 4 + MonthLen(q[1]) + DayLen(q[2]) # Len(s) THEN bad
                 ELSE IF y < 1 \/ d > DaysInMonth(y, m) THEN bad
                 ELSE [ok |-> TRUE, y |-> y, m |-> m, d |-> d]

\* time.strftime('%Y-%m-%d', t)
strftime(t) == Digits(t.y, 4) \o <<"-">> \o Digits(t.m, 2) \o <<"-">> \o Digits(t.d, 2)

\* ------------------------------------------------------------ the parser
T097 == <<"0", "9", "7">>
T084 == <<"0", "8", "4">>
C02 == <<"0", "2">>

\* self.reject_reason: the keys of the table and the (translated) texts.
\* A message is one element of a text (the apostrophe of the '03' text is
\* written in ASCII here).
RejectCodes == {<<"0", "1">>, <<"0", "2">>, <<"0", "3">>, <<"0", "4">>,
                <<"0", "5">>, <<"0", "6">>, <<"0", "7">>}
ReasonText(c) ==
    CASE c = <<"0", "1">> -> "Insufficient cover funds."
      [] c = <<"0", "2">> -> "Debtor protestation."
      [] c = <<"0", "3">> -> "Debtor's account number and address do not match."
      [] c = <<"0", "4">> -> "Postal account closed."
      [] c = <<"0", "5">> -> "Postal account blocked/frozen."
      [] c = <<"0", "6">> -> "Postal account holder deceased."
      [] c = <<"0", "7">> -> "Postal account number non-existent."
reject_reason_99 ==
    [c \in RejectCodes \cup {<<"9", "9">>} |->
        IF c \in RejectCodes THEN <<ReasonText(c)>> ELSE <<"Unknown reason.">>]
reject_reason == [c \in RejectCodes |-> <<ReasonText(c)>>]

TestMarker == <<"-- Test transaction --">>
NL == <<"\n">>

\* '%f' % amount for an amount of c cents (c >= 0): six decimals
RECURSIVE Decimal(_)
Decimal(n) == IF n < 10 THEN <<DigitChars[n + 1]>>
              ELSE Decimal(n \div 10) \o <<DigitChars[(n % 10) + 1]>>
FormatF(c) == Decimal(c \div 100) \o <<".">> \o Digits(c % 100, 2) \o <<"0", "0", "0", "0">>

\* _("Amount to debit was %s %f") % (currency, amount)
AmountMsg(currency, c) == <<"Amount to debit was ">> \o currency \o <<" ">> \o FormatF(c)

\* the note of a failed record (reject code other than '02'), lines 175-178:
\* the message is formatted before the amount is set to 0.0
FailedNoteZeroed(code, currency, amount) == reject_reason[code] \o NL \o AmountMsg(currency, 0)
FailedNote(code, currency, amount) == reject_reason[code] \o NL \o AmountMsg(currency, amount)

\* amount *= -1, line 170
DebitAmountUnsigned(amount) == amount
DebitAmount(amount) == 0 - amount

\* self.reject_reason[reject_code]: a code that is not a key is a KeyError
HasReason(code) == code \in DOMAIN reject_reason

\* the note of a test transaction, line 183
TestNoteAfter(note) == note \o NL \o TestMarker
TestNote(note) == TestMarker \o NL \o note

\* ref = line[15:42]
RefShort(line) == Slice(line, 15, 41)
Ref(line) == Slice(line, 15, 42)

\* the record test of the loop, line 156
IsTransactionLine(line) == Slice(line, 0, 3) # T097

\* One turn of the loop of _parse_transactions on a line that is not a
\* '097' line: the dict that is appended, or the exception that is raised.
\* The steps are evaluated in the order of the code.
DecodeLine(line) ==
    LET ref      == Ref(line)
        currency == Slice(line, 42, 45)
        num      == ParseNumber(Slice(line, 45, 57))
        t        == strptime(Slice(line, 108, 116))
        code     == Slice(line, 128, 130)
        is084    == Slice(line, 0, 3) = T084
        amount   == IF ~is084 THEN num.v
                    ELSE IF code = C02 THEN DebitAmount(num.v) ELSE 0
        note     == IF ~is084 THEN <<>>
                    ELSE IF code = C02 THEN reject_reason[code]
                    ELSE FailedNote(code, currency, num.v)
        none     == [err |-> "ValueError", tx |-> <<>>]
    IN  IF ~num.ok THEN none
        ELSE IF ~t.ok THEN none
        ELSE IF is084 /\ ~HasReason(code) THEN [none EXCEPT !.err = "KeyError"]
        ELSE IF Len(line) < 6 THEN [none EXCEPT !.err = "IndexError"]
        ELSE [err |-> "none",
              tx  |-> [name |-> <<"/">>,
                       ref |-> ref,
                       unique_import_id |-> ref,
                       amount |-> amount,
                       date |-> strftime(t),
                       note |-> IF line[6] = "3" THEN TestNote(note) ELSE note]]

\* _parse_statement_balance_end, in cents
BalanceEndSum(total_line) ==
    LET credit == ParseNumber(Slice(total_line, 45, 57))
        debit  == ParseNumber(Slice(total_line, 101, 113))
    IN  [ok |-> credit.ok /\ debit.ok, v |-> credit.v + debit.v]
BalanceEnd(total_line) ==
    LET credit == ParseNumber(Slice(total_line, 45, 57))
        debit  == ParseNumber(Slice(total_line, 101, 113))
    IN  [ok |-> credit.ok /\ debit.ok, v |-> credit.v - debit.v]

\* the sum of the counters that validate reads from the last line
TrailerCount(total_line) ==
    LET n1 == ParseNumber(Slice(total_line, 57, 69))
        n2 == ParseNumber(Slice(total_line, 89, 101))
        n3 == ParseNumber(Slice(total_line, 113, 125))
    IN  [ok |-> n1.ok /\ n2.ok /\ n3.ok, v |-> n1.v + n2.v + n3.v]

\* file_is_known, line 115
FileIsKnown(ls) ==
    IF ls = <<>> THEN "IndexError"
    ELSE IF Slice(ls[Len(ls)], 0, 3) = T097 THEN "True" ELSE "False"

\* ------------------------------------------------------------- the files
LineLen == 131

Blank(n) == [k \in 1..n |-> " "]
Put(line, off, f) ==
    [k \in 1..Len(line) |-> IF k > off /\ k <= off + Len(f) THEN f[k - off] ELSE line[k]]
Cut(line, n) == SubSeq(line, 1, n)

CHF == <<"C", "H", "F">>
EUR == <<"E", "U", "R">>
D20130626 == <<"2", "0", "1", "3", "0", "6", "2", "6">>
D20121109 == <<"2", "0", "1", "2", "1", "1", "0", "9">>

\* a transaction record: type, origin flag, reference, currency, amount in
\* cents, date and reject code at their offsets
TxLine(type, flag, refn, cur, cents, date, code) ==
    Put(Put(Put(Put(Put(Put(Put(Blank(LineLen), 0, type), 5, <<flag>>),
        15, Digits(refn, 27)), 42, cur), 45, Digits(cents, 12)), 108, date), 128, code)

\* a total record: credit total, the three counters, debit total, currency
TrailerLine(flag, credit, n1, n2, debit, n3, cur) ==
    Put(Put(Put(Put(Put(Put(Put(Put(Blank(LineLen), 0, T097), 5, <<flag>>),
        45, Digits(credit, 12)), 57, Digits(n1, 12)), 89, Digits(n2, 12)),
        101, Digits(debit, 12)), 113, Digits(n3, 12)), 128, cur)

T081 == <<"0", "8", "1">>
NoCode == <<" ", " ">>

Normal    == TxLine(T081, "1", 11, CHF, 150000, D20130626, NoCode)
NormalT   == TxLine(T081, "3", 12, CHF, 2500, D20121109, NoCode)
Debit     == TxLine(T084, "1", 21, CHF, 8368, D20130626, C02)
DebitT    == TxLine(T084, "3", 22, EUR, 1200, D20130626, C02)
Failed    == TxLine(T084, "1", 31, CHF, 8368, D20130626, <<"0", "1">>)
FailedT   == TxLine(T084, "3", 32, EUR, 990, D20121109, <<"0", "5">>)
Unknown   == TxLine(T084, "1", 41, CHF, 100, D20130626, <<"9", "9">>)
TrailerA  == TrailerLine("1", 45600, 1, 0, 1200, 0, CHF)
TrailerB  == TrailerLine("3", 150000, 0, 1, 0, 1, EUR)
\* a record that is not a total record and still reads as one: digits in all
\* the total fields, the third counter sharing its first digits with the date
NoTrailer == Put(Put(Put(TxLine(T081, "1", 51, CHF, 700, D20130626, NoCode),
                 57, Digits(1, 12)), 89, Digits(0, 12)), 101, Digits(0, 7))

WholeLines == {NormalT, Debit, DebitT, Failed, FailedT, Unknown,
               TrailerA, TrailerB, NoTrailer}

\* records that end early, and total records with blank or foreign fields
CutLines == {Normal, TrailerA,
             Cut(Normal, 30), Cut(Normal, 115), Cut(Failed, 120), Cut(Failed, 100),
             Cut(Failed, 129), Cut(TrailerA, 128), Cut(TrailerA, 110), Unknown,
             Put(TrailerA, 57, <<"X">>), <<"0", "9">>, <<>>}

Files(menu) == UNION {[1..n -> menu] : n \in 0..MaxLines}

\* the text of a file: its lines, each but the last followed by a line
\* break, the last one followed by a line break or not
RECURSIVE Join(_, _)
Join(f, trailing) ==
    IF f = <<>> THEN <<>>
    ELSE IF Len(f) = 1 THEN f[1] \o (IF trailing THEN NL ELSE <<>>)
    ELSE f[1] \o NL \o Join(Tail(f), trailing)

\* datetime.date.today()
Today == {[y |-> 2013, m |-> 6, d |-> 27], [y |-> 2014, m |-> 1, d |-> 3]}

\* ------------------------------------------------------------- the state
VARIABLES lines, statements, currency_code, known,
          pc, statement, transactions, i, result, raisedIn, before, calls

vars == <<lines, statements, currency_code, known,
          pc, statement, transactions, i, result, raisedIn, before, calls>>

EmptyDict == [k \in {} |-> 0]

\* __init__: the lines of the file; the statement list and the currency
\* code are those of the base parser
Construct(data_file) ==
    /\ lines = splitlines(data_file)
    /\ statements = <<>>
    /\ currency_code = <<"unset">>
    /\ known = "none"
    /\ pc = "idle"
    /\ statement = EmptyDict
    /\ transactions = <<>>
    /\ i = 0
    /\ result = "none"
    /\ raisedIn = "none"
    /\ before = <<>>
    /\ calls = 0

Init == \E f \in Files(WholeLines), trailing \in BOOLEAN : Construct(Join(f, trailing))
InitCut == \E f \in Files(CutLines), trailing \in BOOLEAN : Construct(Join(f, trailing))

Raise(e, where) ==
    /\ pc' = "idle"
    /\ result' = e
    /\ raisedIn' = where

\* file_is_known(): known is the answer the caller holds, until it goes on
\* to _parse
file_is_known ==
    /\ pc = "idle"
    /\ known' = FileIsKnown(lines)
    /\ UNCHANGED <<lines, statements, currency_code, pc, statement, transactions,
                   i, result, raisedIn, before, calls>>

\* _parse, line 222: self.currency_code = self._parse_currency_code()
ParseCurrencyCode ==
    /\ pc = "idle"
    /\ calls < MaxParses
    /\ calls' = calls + 1
    /\ known' = "none"
    /\ before' = statements
    /\ statement' = EmptyDict
    /\ transactions' = <<>>
    /\ i' = 0
    /\ IF lines = <<>>
       THEN Raise("IndexError", "currency") /\ UNCHANGED currency_code
       ELSE /\ currency_code' = Slice(lines[Len(lines)], 128, 131)
            /\ pc' = "balance"
            /\ result' = "none"
            /\ raisedIn' = "none"
    /\ UNCHANGED <<lines, statements>>

\* _parse, lines 223-225
ParseBalance ==
    /\ pc = "balance"
    /\ LET b == BalanceEnd(lines[Len(lines)])
       IN  IF b.ok
           THEN /\ statement' = ("balance_start" :> 0) @@ ("balance_end_real" :> b.v)
                /\ pc' = "date"
                /\ UNCHANGED <<result, raisedIn>>
           ELSE /\ statement' = ("balance_start" :> 0)
                /\ Raise("ValueError", "balance")
    /\ UNCHANGED <<lines, statements, currency_code, known, transactions, i, before, calls>>

\* _parse, lines 226-227, and the first line of _parse_transactions
ParseDateAppendEarly ==
    /\ pc = "date"
    /\ \E today \in Today :
          statement' = statement @@ ("date" :> strftime(today)) @@ ("attachments" :> <<>>)
    /\ statements' = Append(statements, statement')
    /\ transactions' = <<>>
    /\ i' = 1
    /\ pc' = "transactions"
    /\ UNCHANGED <<lines, currency_code, known, result, raisedIn, before, calls>>
ParseDate ==
    /\ pc = "date"
    /\ \E today \in Today :
          statement' = statement @@ ("date" :> strftime(today)) @@ ("attachments" :> <<>>)
    /\ transactions' = <<>>
    /\ i' = 1
    /\ pc' = "transactions"
    /\ UNCHANGED <<lines, statements, currency_code, known, result, raisedIn, before, calls>>

\* _parse_transactions: one turn of the loop over self.lines
ParseLine ==
    /\ pc = "transactions"
    /\ i <= Len(lines)
    /\ IF ~IsTransactionLine(lines[i])
       THEN /\ i' = i + 1
            /\ UNCHANGED <<transactions, pc, result, raisedIn>>
       ELSE LET r == DecodeLine(lines[i])
            IN  IF r.err = "none"
                THEN /\ transactions' = Append(transactions, r.tx)
                     /\ i' = i + 1
                     /\ UNCHANGED <<pc, result, raisedIn>>
                ELSE /\ Raise(r.err, "transactions")
                     /\ UNCHANGED <<transactions, i>>
    /\ UNCHANGED <<lines, statements, currency_code, known, statement, before, calls>>

\* _parse_transactions returns, line 228: statement['transactions'] = ...
ParseTransactionsReturn ==
    /\ pc = "transactions"
    /\ i > Len(lines)
    /\ statement' = statement @@ ("transactions" :> transactions)
    /\ pc' = "append"
    /\ UNCHANGED <<lines, statements, currency_code, known, transactions, i,
                   result, raisedIn, before, calls>>

\* _parse, line 229: self.statements.append(statement)
AppendStatement ==
    /\ pc = "append"
    /\ statements' = Append(statements, statement)
    /\ pc' = "validate"
    /\ UNCHANGED <<lines, currency_code, known, statement, transactions, i,
                   result, raisedIn, before, calls>>

\* validate(): what it returns, or the exception of int()
ValidateTwoCounters(ls, stmts) ==
    LET n1 == ParseNumber(Slice(ls[Len(ls)], 57, 69))
        n2 == ParseNumber(Slice(ls[Len(ls)], 89, 101))
        n3 == ParseNumber(Slice(ls[Len(ls)], 113, 125))
    IN  IF ~(n1.ok /\ n2.ok /\ n3.ok) THEN "ValueError"
        ELSE IF Len(stmts[1]["transactions"]) = n1.v + n2.v THEN "True" ELSE "False"
Validate(ls, stmts) ==
    LET n == TrailerCount(ls[Len(ls)])
    IN  IF ~n.ok THEN "ValueError"
        ELSE IF Len(stmts[1]["transactions"]) = n.v THEN "True" ELSE "False"

\* _parse, line 230: return self.validate()
ReturnValidate ==
    /\ pc = "validate"
    /\ LET v == Validate(lines, statements)
       IN  /\ result' = v
           /\ raisedIn' = IF v = "ValueError" THEN "validate" ELSE "none"
    /\ pc' = "idle"
    /\ UNCHANGED <<lines, statements, currency_code, known, statement, transactions,
                   i, before, calls>>

Next ==
    \/ file_is_known
    \/ ParseCurrencyCode
    \/ ParseBalance
    \/ ParseDate
    \/ ParseLine
    \/ ParseTransactionsReturn
    \/ AppendStatement
    \/ ReturnValidate

Spec == Init /\ [][Next]_vars
SpecCut == InitCut /\ [][Next]_vars

TypeOK ==
    /\ pc \in {"idle", "balance", "date", "transactions", "append", "validate"}
    /\ result \in {"none", "True", "False", "ValueError", "KeyError", "IndexError"}
    /\ known \in {"none", "True", "False", "IndexError"}
    /\ calls \in 0..MaxParses
    /\ Len(lines) <= MaxLines

\* ------------------------------------------------------------ properties
\* the lines that are not total records, in file order, and their fields,
\* read off the text of the line
Is097(l) == Len(l) >= 3 /\ l[1] = "0" /\ l[2] = "9" /\ l[3] = "7"
Is084(l) == Len(l) >= 3 /\ l[1] = "0" /\ l[2] = "8" /\ l[3] = "4"
NotTrailer(l) == ~Is097(l)
TxLines == SelectSeq(lines, NotTrailer)
IsTest(l) == Len(l) >= 6 /\ l[6] = "3"
CodeOf(l) == Slice(l, 128, 130)
RawCents(l) == ParseNumber(Slice(l, 45, 57)).v
FailureCodes == RejectCodes \ {C02}
LastLine == lines[Len(lines)]

\* every list of transactions of the state: the one being built and those
\* of the statements; entry k of each comes from TxLines[k]
TxLists == {transactions} \cup {statements[k]["transactions"] : k \in 1..Len(statements)}

Contains(s, sub) == \E k \in 0..(Len(s) - Len(sub)) : SubSeq(s, k + 1, k + Len(sub)) = sub

Returned == pc = "idle" /\ result \in {"True", "False"}
CounterSum(l) ==
    ParseNumber(Slice(l, 57, 69)).v + ParseNumber(Slice(l, 89, 101)).v
        + ParseNumber(Slice(l, 113, 125)).v
CountersParse(l) ==
    /\ ParseNumber(Slice(l, 57, 69)).ok
    /\ ParseNumber(Slice(l, 89, 101)).ok
    /\ ParseNumber(Slice(l, 113, 125)).ok

\* C1: once _parse has appended the statement and validate has run on a
\* last line whose three counters parse, the result is "True" exactly when
\* the number of transactions of the appended statement is the sum of the
\* counters at [57,69), [89,101) and [113,125), and "False" (no exception)
\* when the two numbers differ.
C1_ValidateCount ==
    (pc = "idle" /\ result # "none" /\ Len(statements) = Len(before) + 1
        /\ CountersParse(LastLine))
    => /\ result \in {"True", "False"}
       /\ (result = "True") <=>
             (Len(statements[Len(statements)]["transactions"]) = CounterSum(LastLine))

C1_Witness ==
    /\ Returned /\ result = "True"
    /\ Len(statements[Len(statements)]["transactions"]) = 2
    /\ ParseNumber(Slice(LastLine, 113, 125)).v = 1

\* C2: file_is_known answers "True" when the last line starts with '097'
\* and "False" for every other file, the file with no lines included; it
\* never raises.
C2_KnownNeverRaises ==
    known # "none" =>
        known = (IF lines # <<>> /\ Is097(LastLine) THEN "True" ELSE "False")

\* C3: in every statement the closing balance is the credit total at
\* [45,57) of the last line minus the total at [101,113) of the last line
\* (in cents), whatever the other lines are, and the opening balance is 0.
C3_ClosingBalance ==
    \A k \in 1..Len(statements) :
        /\ statements[k]["balance_end_real"] =
              ParseNumber(Slice(LastLine, 45, 57)).v - ParseNumber(Slice(LastLine, 101, 113)).v
        /\ statements[k]["balance_start"] = 0

C3_Witness ==
    /\ Len(statements) >= 1
    /\ statements[1]["balance_end_real"] = 44400
    /\ Len(statements[1]["transactions"]) >= 2

\* C4 (as stated): every '084' line with reject code '02' gives a
\* transaction of amount -X whose note is exactly the '02' reason text.
C4_NoteExactlyReason ==
    \A T \in TxLists : \A k \in 1..Len(T) :
        (Is084(TxLines[k]) /\ CodeOf(TxLines[k]) = C02)
        => /\ T[k].amount = 0 - RawCents(TxLines[k])
           /\ T[k].note = <<"Debtor protestation.">>

\* C4 (amended): every '084' line with reject code '02' gives a transaction
\* of amount -X; its note is exactly the '02' reason text when the
\* character at offset 5 is not '3', and the test marker, a line break and
\* the '02' reason text when it is.
C4_DebitRecord ==
    \A T \in TxLists : \A k \in 1..Len(T) :
        (Is084(TxLines[k]) /\ CodeOf(TxLines[k]) = C02)
        => /\ T[k].amount = 0 - RawCents(TxLines[k])
           /\ T[k].note = IF IsTest(TxLines[k])
                          THEN <<"-- Test transaction --", "\n", "Debtor protestation.">>
                          ELSE <<"Debtor protestation.">>

C4_Witness ==
    \E k \in 1..Len(transactions) :
        /\ Is084(TxLines[k]) /\ CodeOf(TxLines[k]) = C02 /\ ~IsTest(TxLines[k])
        /\ transactions[k].amount = 0 - 8368

\* C5: every '084' line with reject code 01, 03, 04, 05, 06 or 07 gives a
\* transaction of amount 0 whose note contains the reason text of the code,
\* a line break and the message with the currency at [42,45) of the line
\* and the amount the line carried.
C5_FailedRecord ==
    \A T \in TxLists : \A k \in 1..Len(T) :
        (Is084(TxLines[k]) /\ CodeOf(TxLines[k]) \in FailureCodes)
        => /\ T[k].amount = 0
           /\ Contains(T[k].note,
                 <<ReasonText(CodeOf(TxLines[k])), "\n", "Amount to debit was ">>
                    \o Slice(TxLines[k], 42, 45) \o <<" ">> \o FormatF(RawCents(TxLines[k])))

C5_Witness ==
    \E k \in 1..Len(transactions) :
        /\ Is084(TxLines[k]) /\ CodeOf(TxLines[k]) = <<"0", "1">>
        /\ transactions[k].amount = 0
        /\ Contains(transactions[k].note, <<"C", "H", "F", " ", "8", "3", ".", "6", "8">>)

\* the loop of _parse_transactions is about to decode an '084' line whose
\* reject code is not a key of the table
AtUnknownCode ==
    /\ pc = "transactions" /\ i <= Len(lines)
    /\ Is084(lines[i]) /\ CodeOf(lines[i]) \notin RejectCodes
FieldsParse(l) == ParseNumber(Slice(l, 45, 57)).ok /\ strptime(Slice(l, 108, 116)).ok

\* C6 (as stated): the turn of the loop on an '084' line with a reject code
\* outside '01'..'07' raises a lookup error and appends no transaction.
C6_AlwaysLookupError ==
    [][AtUnknownCode =>
         (pc' = "idle" /\ result' = "KeyError" /\ transactions' = transactions)]_vars

\* C6 (amended): the turn of the loop on an '084' line with a reject code
\* outside '01'..'07' raises and appends no transaction; the error is a
\* lookup error when the amount [45,57) and the date [108,116) of the line
\* parse, and the ValueError of the amount or the date otherwise.
C6_UnknownCodeRaises ==
    [][AtUnknownCode =>
         /\ pc' = "idle" /\ raisedIn' = "transactions"
         /\ transactions' = transactions /\ statements' = statements
         /\ result' = IF FieldsParse(lines[i]) THEN "KeyError" ELSE "ValueError"]_vars

C6_Witness ==
    /\ pc = "idle" /\ result = "KeyError" /\ raisedIn = "transactions"
    /\ Is084(lines[i]) /\ CodeOf(lines[i]) = <<"9", "9">>
    /\ Len(transactions) >= 1

\* the loop of _parse_transactions is about to take a line whose character
\* at offset 5 is '3'
AtTestLine == pc = "transactions" /\ i <= Len(lines) /\ IsTest(lines[i])
\* the note of the reject step for a line, from the text of the line
RejectContent(l) ==
    IF ~Is084(l) THEN <<>>
    ELSE IF CodeOf(l) = C02 THEN <<"Debtor protestation.">>
    ELSE <<ReasonText(CodeOf(l)), "\n", "Amount to debit was ">>
            \o Slice(l, 42, 45) \o <<" ">> \o FormatF(RawCents(l))
MarkedNote(l) == <<"-- Test transaction --", "\n">> \o RejectContent(l)

\* C7 (as stated): every line whose character at offset 5 is '3', a '097'
\* line included, is decoded into a note that is the test marker, a line
\* break and the content of the reject step.
C7_MarkerOnEveryRecord ==
    [][AtTestLine =>
         /\ Len(transactions') = Len(transactions) + 1
         /\ transactions'[Len(transactions')].note = MarkedNote(lines[i])]_vars

\* C7 (amended): every line whose character at offset 5 is '3' and that is
\* decoded into a transaction (a line that is not a '097' line: a normal
\* line or an '084' line with a reject code of the table) has the note test
\* marker, line break, content of the reject step; a '097' line gives no
\* transaction and no note.
C7_TestMarker ==
    [][AtTestLine =>
         IF Is097(lines[i]) THEN transactions' = transactions /\ pc' = "transactions"
         ELSE pc' = "transactions" =>
                 /\ Len(transactions') = Len(transactions) + 1
                 /\ transactions'[Len(transactions')].note = MarkedNote(lines[i])]_vars

C7_Witness ==
    /\ pc = "transactions" /\ i > 1 /\ Len(transactions) >= 1
    /\ IsTest(lines[i - 1]) /\ Is084(lines[i - 1])
    /\ CodeOf(lines[i - 1]) = <<"0", "5">>
    /\ transactions[Len(transactions)].note = MarkedNote(lines[i - 1])

\* C8: when _parse has returned, the transactions of the appended statement
\* are one per line that does not start with '097', in file order (the last
\* line too when it does not start with '097'), each with name '/' and with
\* ref and unique_import_id equal to [15,42) of its line.
C8_OnePerLine ==
    (Returned /\ calls > 0) =>
        LET T == statements[Len(statements)]["transactions"]
        IN  /\ Len(T) = Len(TxLines)
            /\ \A k \in 1..Len(T) :
                  /\ T[k].name = <<"/">>
                  /\ T[k].ref = Slice(TxLines[k], 15, 42)
                  /\ T[k].unique_import_id = Slice(TxLines[k], 15, 42)

C8_Witness ==
    /\ Returned /\ calls > 0
    /\ Len(lines) = 3 /\ Is097(lines[1]) /\ ~Is097(lines[3])
    /\ Len(statements[Len(statements)]["transactions"]) = 2

\* C9: when _parse raises while decoding (currency, balance or a line) the
\* statement list is the one of before the call and validate has not run;
\* the statement list changes only by the append of the statement, after
\* the loop has taken every line, and validate runs only after the append.
C9_NoPartialStatement ==
    [][/\ (raisedIn' \in {"currency", "balance", "transactions"}
              => pc' = "idle" /\ statements' = before' /\ pc # "validate"
                 /\ result' \in {"ValueError", "KeyError", "IndexError"})
       /\ (statements' # statements
              => /\ pc = "append" /\ pc' = "validate" /\ i = Len(lines) + 1
                 /\ Len(statement["transactions"]) = Len(TxLines)
                 /\ statements' = Append(statements, statement))
       /\ (pc' = "validate" => statements' = Append(before', statement'))]_vars

C9_Witness ==
    /\ pc = "idle" /\ raisedIn = "transactions" /\ result = "KeyError"
    /\ Len(transactions) >= 1 /\ statements = <<>>

\* C10: a statement is produced only from lines that hold every field that
\* is read from them: the last line up to offset 131, every line that is
\* not a '097' line up to offset 116, and up to offset 130 when it is an
\* '084' line.
C10_NoShortField ==
    statements # <<>> =>
        /\ Len(LastLine) >= 131
        /\ \A k \in 1..Len(TxLines) :
              Len(TxLines[k]) >= (IF Is084(TxLines[k]) THEN 130 ELSE 116)

====
